---- MODULE Spec2Model ----
(***************************************************************************)
(* Session layer of classic-q-interface (src/src/main.js): the registry    *)
(* `sessions`, the window reference `mainWindow`, the IPC handlers         *)
(* create-session / send-to-q / kill-session / close-app, the window and   *)
(* application lifecycle handlers, and the per-child data / exit / close / *)
(* error callbacks.                                                        *)
(*                                                                         *)
(* Strings are sequences of code points, buffers are sequences of bytes.   *)
(* The renderer channel is recorded per child: procs[p].output and         *)
(* procs[p].closed are the 'q-output' and 'session-closed' events sent for *)
(* child p, in order (the order between events of different children is   *)
(* not recorded).  procs[p].emitted is history: the chunks the adapter of  *)
(* p produced, each with whether a consumer was attached at that moment.   *)
(***************************************************************************)
EXTENDS Integers, Sequences, FiniteSets

\* ---------------------------------------------------------------- bounds
MaxClock == 1        \* milliseconds that may elapse in a run
StartTime == 9       \* value of Date.now() when the run starts
MaxProcs == 2        \* children spawned in a run of Spec
MaxWriteProcs == 1   \* children spawned in a run of SpecWrite
MaxWrites == 1       \* successful writes in a run of SpecWrite
MaxOutputProcs == 1  \* children spawned in a run of SpecOutput
MaxSavers == 2       \* save-chat requests that may be in progress at once
MaxChunks == 2       \* output chunks emitted in a run of SpecOutput
MaxFragments == 2    \* fragments joined into one text given to the classifier
MaxExisting == 2     \* files that exist when findQCliPath runs
MaxReads == 2        \* reads of a child's output compared across backends
MaxFrameProcs == 2   \* children spawned in a run of SpecFrame
MaxFrameEvents == 1  \* writes and output chunks in a run of SpecFrame
MaxSplitChunks == 2  \* output chunks emitted in a run of SpecSplit
MaxInputLen == 3     \* characters of an input handed to the write path
MaxPathEntries == 3  \* entries of the inherited PATH
MaxShutdownProcs == 2 \* children spawned in a run of SpecShutdown

\* ------------------------------------------------------- text and buffers
\* Number.prototype.toString(): decimal digits, most significant first.
RECURSIVE ToString(_)
ToString(n) ==
  IF n < 10 THEN <<48 + n>>
  ELSE ToString(n \div 10) \o <<48 + (n % 10)>>

\* Buffer.prototype.toString(): UTF-8 decoding of ONE buffer.  A byte that
\* does not start a complete sequence inside this buffer becomes U+FFFD.
\* (The model's buffers use one- and two-byte sequences only.)
RECURSIVE BufferToString(_)
BufferToString(b) ==
  IF b = <<>> THEN <<>>
  ELSE IF b[1] < 128 THEN <<b[1]>> \o BufferToString(Tail(b))
  ELSE IF b[1] \in 194..223 /\ Len(b) >= 2 /\ b[2] \in 128..191
       THEN <<(b[1] - 192) * 64 + (b[2] - 128)>> \o BufferToString(Tail(Tail(b)))
  ELSE <<65533>> \o BufferToString(Tail(b))

\* The text the pty adapter hands to onData for the bytes its child wrote:
\* pty.spawn is called without an encoding option, so the adapter decodes
\* the stream as UTF-8 and keeps the bytes of an incomplete character (here
\* a lead byte at the end of a read) for the next read; a read that yields
\* no text calls no handler.  pending is what the previous read left.
RECURSIVE PtyTexts(_, _)
PtyTexts(chunks, pending) ==
  IF chunks = <<>> THEN <<>>
  ELSE LET b == pending \o Head(chunks)
           cut == b # <<>> /\ b[Len(b)] \in 194..223
           whole == IF cut THEN SubSeq(b, 1, Len(b) - 1) ELSE b
           rest == IF cut THEN <<b[Len(b)]>> ELSE <<>>
           text == BufferToString(whole)
       IN (IF text = <<>> THEN <<>> ELSE <<text>>)
             \o PtyTexts(Tail(chunks), rest)

\* The bytes a string stands for (UTF-8 encoding), used to compare a
\* delivered payload with the bytes the child produced.
RECURSIVE Utf8Bytes(_)
Utf8Bytes(s) ==
  IF s = <<>> THEN <<>>
  ELSE IF s[1] < 128 THEN <<s[1]>> \o Utf8Bytes(Tail(s))
  ELSE IF s[1] < 2048
       THEN <<192 + (s[1] \div 64), 128 + (s[1] % 64)>> \o Utf8Bytes(Tail(s))
  ELSE <<224 + (s[1] \div 4096), 128 + ((s[1] \div 64) % 64), 128 + (s[1] % 64)>>
       \o Utf8Bytes(Tail(s))

\* ASCII case folding of the regex flag /i (non-ASCII characters never fold
\* onto ASCII ones).
LowerChar(c) == IF c \in 65..90 THEN c + 32 ELSE c

Lower(s) == [i \in 1..Len(s) |-> LowerChar(s[i])]

\* pat occurs in s as a contiguous substring, ignoring ASCII case.
ContainsI(s, pat) ==
  \E i \in 1..(Len(s) - Len(pat) + 1) :
     Lower(SubSeq(s, i, i + Len(pat) - 1)) = Lower(pat)

\* The alternatives of the prompt regex:
\* \(y\/n\) | Do you want to continue\? | Can I | Should I | Allow | Trust | Proceed
PromptPatterns ==
  { <<40, 121, 47, 110, 41>>,
    <<68, 111, 32, 121, 111, 117, 32, 119, 97, 110, 116, 32, 116, 111, 32,
      99, 111, 110, 116, 105, 110, 117, 101, 63>>,
    <<67, 97, 110, 32, 73>>,
    <<83, 104, 111, 117, 108, 100, 32, 73>>,
    <<65, 108, 108, 111, 119>>,
    <<84, 114, 117, 115, 116>>,
    <<80, 114, 111, 99, 101, 101, 100>> }

\* Mutant: the flag i is missing, the match is case-sensitive.
IsPrompt_CaseSensitive(text) ==
  \E pat \in PromptPatterns :
     \E i \in 1..(Len(text) - Len(pat) + 1) :
        SubSeq(text, i, i + Len(pat) - 1) = pat

\* /.../i.test(text)
IsPrompt(text) == \E pat \in PromptPatterns : ContainsI(text, pat)

\* JavaScript whitespace that occurs in the model's inputs.
IsSpace(c) == c \in {9, 10, 11, 12, 13, 32}

\* String.prototype.trim()
RECURSIVE TrimLeft(_)
TrimLeft(s) ==
  IF s # <<>> /\ IsSpace(s[1]) THEN TrimLeft(Tail(s)) ELSE s

RECURSIVE TrimRight(_)
TrimRight(s) ==
  IF s # <<>> /\ IsSpace(s[Len(s)]) THEN TrimRight(SubSeq(s, 1, Len(s) - 1)) ELSE s

Trim(s) == TrimRight(TrimLeft(s))

\* ------------------------------------------------------ executable locator
\* String(undefined), what an unset environment variable concatenates as.
Undefined ==
  <<117, 110, 100, 101, 102, 105, 110, 101, 100>>

\* os.homedir(): "/home/u"
HomeDir ==
  <<47, 104, 111, 109, 101, 47, 117>>

\* process.env.PROGRAMFILES when set: "C:\PF"
ProgramFilesDir ==
  <<67, 58, 92, 80, 70>>

\* process.env.USERPROFILE when set: "C:\U"
UserProfileDir ==
  <<67, 58, 92, 85>>

\* '/usr/local/bin/q'
UsrLocalBinQ ==
  <<47, 117, 115, 114, 47, 108, 111, 99, 97, 108, 47, 98, 105, 110, 47,
  113>>

\* '/opt/homebrew/bin/q'
HomebrewBinQ ==
  <<47, 111, 112, 116, 47, 104, 111, 109, 101, 98, 114, 101, 119, 47, 98,
  105, 110, 47, 113>>

\* '/bin/q'
HomeBinQSuffix ==
  <<47, 98, 105, 110, 47, 113>>

\* '/.local/bin/q'
HomeLocalBinQSuffix ==
  <<47, 46, 108, 111, 99, 97, 108, 47, 98, 105, 110, 47, 113>>

\* '/usr/bin/q'
UsrBinQ ==
  <<47, 117, 115, 114, 47, 98, 105, 110, 47, 113>>

\* 'q.exe'
QExe ==
  <<113, 46, 101, 120, 101>>

\* '\Amazon\AWSCLIV2\q.exe'
AwsCliQSuffix ==
  <<92, 65, 109, 97, 122, 111, 110, 92, 65, 87, 83, 67, 76, 73, 86, 50, 92,
  113, 46, 101, 120, 101>>

\* '\AppData\Local\Programs\q\q.exe'
LocalProgramsQSuffix ==
  <<92, 65, 112, 112, 68, 97, 116, 97, 92, 76, 111, 99, 97, 108, 92, 80,
  114, 111, 103, 114, 97, 109, 115, 92, 113, 92, 113, 46, 101, 120, 101>>

\* '\q\q.exe'
ProgramQSuffix ==
  <<92, 113, 92, 113, 46, 101, 120, 101>>

\* 'C:\Program Files\Amazon\AWSCLIV2\q.exe'
AwsCliQ ==
  <<67, 58, 92, 80, 114, 111, 103, 114, 97, 109, 32, 70, 105, 108, 101, 115,
  92, 65, 109, 97, 122, 111, 110, 92, 65, 87, 83, 67, 76, 73, 86, 50, 92,
  113, 46, 101, 120, 101>>

\* 'q'
BareQ ==
  <<113>>

\* value of an environment variable in a string concatenation
EnvString(v) == IF v.set THEN v.value ELSE Undefined

\* searchPaths, by process.platform; env gives os.homedir() and the two
\* environment variables.
SearchPaths(env) ==
  IF env.platform \in {"darwin", "linux"}
  THEN << UsrLocalBinQ, HomebrewBinQ, env.home \o HomeBinQSuffix,
          env.home \o HomeLocalBinQSuffix, UsrBinQ >>
  ELSE IF env.platform = "win32"
  THEN << QExe, EnvString(env.programFiles) \o AwsCliQSuffix,
          EnvString(env.userProfile) \o LocalProgramsQSuffix,
          EnvString(env.programFiles) \o ProgramQSuffix, AwsCliQ >>
  ELSE << >>

\* String.prototype.split('\n')[0]: the text before the first line feed.
RECURSIVE FirstLine(_)
FirstLine(s) ==
  IF s = <<>> \/ s[1] = 10 THEN <<>> ELSE <<s[1]>> \o FirstLine(Tail(s))

\* fs.existsSync(path)
ExistsSync(env, path) == path \in env.existing

\* The first element of paths that exists, or none.
RECURSIVE FirstExisting(_, _)
FirstExisting(env, paths) ==
  IF paths = <<>> THEN [found |-> FALSE, path |-> <<>>]
  ELSE IF ExistsSync(env, Head(paths)) THEN [found |-> TRUE, path |-> Head(paths)]
  ELSE FirstExisting(env, Tail(paths))

\* Mutant: the fallback is the empty string.
Fallback_Empty == << >>

\* return 'q'
Fallback == BareQ

\* findQCliPath(): which, then where (win32), then searchPaths, then 'q'.
\* A lookup command that throws is caught and the search goes on.
FindQCliPath(env) ==
  LET viaWhich == IF env.which.threw THEN <<>> ELSE Trim(env.which.out)
      viaWhere == IF env.where.threw THEN <<>>
                  ELSE FirstLine(Trim(env.where.out))
      manual == FirstExisting(env, SearchPaths(env))
  IN IF viaWhich # <<>> /\ ExistsSync(env, viaWhich)
     THEN [status |-> "returned", value |-> viaWhich]
     ELSE IF env.platform = "win32" /\ viaWhere # <<>> /\ ExistsSync(env, viaWhere)
     THEN [status |-> "returned", value |-> viaWhere]
     ELSE IF manual.found THEN [status |-> "returned", value |-> manual.path]
     ELSE [status |-> "returned", value |-> Fallback]

\* --------------------------------------------------------- input domains
\* Text chunks a pty adapter hands to onData: "e-acute", "(Y/N)".
PtyChunks == { <<233>>, <<40, 89, 47, 78, 41>> }

\* Buffers the pipe adapter hands to the stdout handler: "(Y/N)" followed by
\* the first byte of e-acute (a read that ends inside the character).
PipeChunks == { <<40, 89, 47, 78, 41, 195>> }

\* Buffers the pipe adapter hands to the stderr handler: "(Y/N)".
StderrChunks == { <<40, 89, 47, 78, 41>> }

\* A prompt phrase that arrives in two reads: "(Y/" and "N)".
SplitChunks == { <<40, 89, 47>>, <<78, 41>> }

\* Inputs of send-to-q: "y" and " y\n".
Inputs == { <<121>>, <<32, 121, 10>> }

\* Characters of the inputs handed to the write path on its own: space,
\* tab, line feed, carriage return and "y".
InputChars == {32, 9, 10, 13, 121}

RECURSIVE Strings(_)
Strings(n) ==
  IF n = 0 THEN { <<>> }
  ELSE Strings(n - 1) \cup
       { Append(t, c) : t \in Strings(n - 1), c \in InputChars }

WriteInputs == Strings(MaxInputLen)

\* ------------------------------------------------- search path of the child
\* "/usr/local/bin"
UsrLocalBin ==
  <<47, 117, 115, 114, 47, 108, 111, 99, 97, 108, 47, 98, 105, 110>>

\* "/opt/homebrew/bin"
HomebrewBin ==
  <<47, 111, 112, 116, 47, 104, 111, 109, 101, 98, 114, 101, 119, 47, 98,
    105, 110>>

\* "/Applications/Docker.app/Contents/Resources/bin"
DockerBin ==
  <<47, 65, 112, 112, 108, 105, 99, 97, 116, 105, 111, 110, 115, 47, 68,
    111, 99, 107, 101, 114, 46, 97, 112, 112, 47, 67, 111, 110, 116, 101,
    110, 116, 115, 47, 82, 101, 115, 111, 117, 114, 99, 101, 115, 47, 98,
    105, 110>>

\* "/usr/bin"
UsrBin ==
  <<47, 117, 115, 114, 47, 98, 105, 110>>

\* "/bin"
HomeBinSuffix ==
  <<47, 98, 105, 110>>

\* "/.local/bin"
HomeLocalBinSuffix ==
  <<47, 46, 108, 111, 99, 97, 108, 47, 98, 105, 110>>

\* "/.npm-global/bin"
HomeNpmBinSuffix ==
  <<47, 46, 110, 112, 109, 45, 103, 108, 111, 98, 97, 108, 47, 98, 105,
    110>>

\* "/usr/local/lib/node_modules/.bin"
UsrLocalNodeBin ==
  <<47, 117, 115, 114, 47, 108, 111, 99, 97, 108, 47, 108, 105, 98, 47,
    110, 111, 100, 101, 95, 109, 111, 100, 117, 108, 101, 115, 47, 46, 98,
    105, 110>>

\* "/opt/homebrew/lib/node_modules/.bin"
HomebrewNodeBin ==
  <<47, 111, 112, 116, 47, 104, 111, 109, 101, 98, 114, 101, 119, 47, 108,
    105, 98, 47, 110, 111, 100, 101, 95, 109, 111, 100, 117, 108, 101, 115,
    47, 46, 98, 105, 110>>

\* additionalPaths, with userHome = os.homedir()
AdditionalPaths ==
  << UsrLocalBin, HomebrewBin, DockerBin, UsrBin,
     HomeDir \o HomeBinSuffix, HomeDir \o HomeLocalBinSuffix,
     HomeDir \o HomeNpmBinSuffix, UsrLocalNodeBin, HomebrewNodeBin >>

\* Array.prototype.join(sep) on an array of strings.
RECURSIVE Join(_, _)
Join(parts, sep) ==
  IF parts = <<>> THEN <<>>
  ELSE IF Len(parts) = 1 THEN parts[1]
  ELSE parts[1] \o sep \o Join(Tail(parts), sep)

\* process.env.PATH || ''
OriginalPath(path) == IF path.set THEN path.value ELSE <<>>

\* [originalPath, ...additionalPaths].join(':')
ComprehensivePath(path) ==
  Join(<<OriginalPath(path)>> \o AdditionalPaths, <<58>>)

\* Directories of the inherited PATH: "/bin", "/usr/bin", "/opt/q/bin" and
\* "/usr/local/bin".
PathDirs ==
  { <<47, 98, 105, 110>>,
    <<47, 117, 115, 114, 47, 98, 105, 110>>,
    <<47, 111, 112, 116, 47, 113, 47, 98, 105, 110>>,
    UsrLocalBin }

RECURSIVE DirLists(_)
DirLists(n) ==
  IF n = 0 THEN { <<>> }
  ELSE DirLists(n - 1) \cup
       { Append(l, d) : l \in DirLists(n - 1), d \in PathDirs }

\* Exit codes a child reports, as zero- or one-element sequences (<<>> is
\* the code of a child that has not terminated).
ExitCodes == { <<0>> }

\* The code 'close' reports after a failed creation: the negative error
\* number (-ENOENT).
SpawnFailureCode == <<-2>>

Times == StartTime..(StartTime + MaxClock)

\* Chunk texts given to the prompt classifier: the three examples of the
\* specification, and concatenations of at most MaxFragments fragments.
\* "Do you want to continue? (y/n)"
ContinueExample ==
  <<68, 111, 32, 121, 111, 117, 32, 119, 97, 110, 116, 32, 116, 111, 32, 99,
  111, 110, 116, 105, 110, 117, 101, 63, 32, 40, 121, 47, 110, 41>>

\* "Trust this MCP server?"
TrustExample ==
  <<84, 114, 117, 115, 116, 32, 116, 104, 105, 115, 32, 77, 67, 80, 32, 115,
  101, 114, 118, 101, 114, 63>>

\* "Listing files in /tmp"
ListingExample ==
  <<76, 105, 115, 116, 105, 110, 103, 32, 102, 105, 108, 101, 115, 32, 105,
  110, 32, 47, 116, 109, 112>>

\* "(y/n)", "(Y/N)", "y/n", "Do you want to continue?", "do you want to continue", "Can I", "CanI",
\* "SHOULD I", "allow", "Allo", "TRUST", "Procee", "d", " "
Fragments ==
  { <<40, 121, 47, 110, 41>>,
    <<40, 89, 47, 78, 41>>,
    <<121, 47, 110>>,
    <<68, 111, 32, 121, 111, 117, 32, 119, 97, 110, 116, 32, 116, 111, 32,
    99, 111, 110, 116, 105, 110, 117, 101, 63>>,
    <<100, 111, 32, 121, 111, 117, 32, 119, 97, 110, 116, 32, 116, 111, 32,
    99, 111, 110, 116, 105, 110, 117, 101>>,
    <<67, 97, 110, 32, 73>>,
    <<67, 97, 110, 73>>,
    <<83, 72, 79, 85, 76, 68, 32, 73>>,
    <<97, 108, 108, 111, 119>>,
    <<65, 108, 108, 111>>,
    <<84, 82, 85, 83, 84>>,
    <<80, 114, 111, 99, 101, 101>>,
    <<100>>,
    <<32>> }

RECURSIVE Concatenations(_)
Concatenations(n) ==
  IF n = 0 THEN { <<>> }
  ELSE Concatenations(n - 1) \cup
       { t \o f : t \in Concatenations(n - 1), f \in Fragments }

Texts ==
  {ContinueExample, TrustExample, ListingExample} \cup Concatenations(MaxFragments)

\* What a lookup command (execSync('which q'), execSync('where q')) does:
\* it throws (exit status not 0, or no such command) or returns its output.
Threw == [threw |-> TRUE, out |-> << >>]

Returned(out) == [threw |-> FALSE, out |-> out]

\* Outputs of `which q`: nothing, "/usr/local/bin/q\n", "/opt/q/bin/q\n".
OptQ ==
  <<47, 111, 112, 116, 47, 113, 47, 98, 105, 110, 47, 113>>

WhichOutputs == { << >>, UsrLocalBinQ \o <<10>>, OptQ \o <<10>> }

\* Outputs of `where q`: nothing, one line "C:\q\q.exe\r\n", and that line
\* followed by "D:\q.exe\r\n".
WinQ ==
  <<67, 58, 92, 113, 92, 113, 46, 101, 120, 101>>

OtherWinQ ==
  <<68, 58, 92, 113, 46, 101, 120, 101>>

WhereOutputs ==
  { << >>, WinQ \o <<13, 10>>, WinQ \o <<13, 10>> \o OtherWinQ \o <<13, 10>> }

Platforms == {"darwin", "linux", "win32", "freebsd"}

Unset == [set |-> FALSE, value |-> << >>]

SetTo(v) == [set |-> TRUE, value |-> v]

\* process.env.PATH of the host: unset, or a list of directories joined by
\* ':' (the empty list is the empty string).
InheritedPaths ==
  {Unset} \cup { SetTo(Join(l, <<58>>)) : l \in DirLists(MaxPathEntries) }

\* Environments without the file system.
BareEnvs ==
  [platform : Platforms,
   which : {Threw} \cup { Returned(o) : o \in WhichOutputs },
   where : {Threw} \cup { Returned(o) : o \in WhereOutputs },
   home : {HomeDir},
   programFiles : {Unset, SetTo(ProgramFilesDir)},
   userProfile : {Unset, SetTo(UserProfileDir)},
   existing : { {} }]

\* Files that may exist: the well-known paths of every environment and the
\* files the lookup commands name.
Files ==
  UNION { { SearchPaths(e)[i] : i \in 1..Len(SearchPaths(e)) } : e \in BareEnvs }
     \cup {OptQ, WinQ, OtherWinQ}

\* Environments: at most MaxExisting of the files exist.
Envs ==
  { [e EXCEPT !.existing = x] :
      e \in BareEnvs,
      x \in { y \in SUBSET Files : Cardinality(y) <= MaxExisting } }

\* Reads of a child's output, as bytes: "(Y/N)", "y", a line feed, e-acute,
\* and the first and the second byte of e-acute alone.
RawChunks ==
  { <<40, 89, 47, 78, 41>>, <<121>>, <<10>>, <<195, 169>>, <<195>>, <<169>> }

\* Runs of one to n reads.
RECURSIVE RawRuns(_)
RawRuns(n) ==
  IF n = 0 THEN {}
  ELSE { <<c>> : c \in RawChunks } \cup
       { r \o <<c>> : r \in RawRuns(n - 1), c \in RawChunks }

\* Session ids a renderer may pass: every id the clock can produce.
SessionIds == { ToString(t) : t \in Times }

NoOp == [op |-> "none", sessionId |-> <<>>, ret |-> "none"]

VARIABLES
  now,          \* Date.now()
  useNodePty,   \* node-pty loaded at start-up
  sessions,     \* the Map sessions: id -> [process, state, type]
  mainWindow,   \* the variable mainWindow: "win" or "null"
  window,       \* the BrowserWindow: "open" or "closed"
  app,          \* "running" or "quit"
  procs,        \* children spawned so far, by pid 1..Len(procs)
  lastOp,       \* the handler that ran last and what it returned
  prevOp,       \* the handler that ran before it
  chats,        \* number of rows in the table saved_chats
  saving,       \* the save-chat requests: where each stands, what it resolved
  call,         \* a helper function under study and its arguments
  result        \* what that call did: returned a value, or threw

vars == <<now, useNodePty, sessions, mainWindow, window, app, procs,
          lastOp, prevOp, chats, saving, call, result>>

\* The variables of the chat store and of the helper call.
chatVars == <<chats, saving>>
funVars == <<call, result>>

NoCall == [fn |-> "none"]
NoResult == [status |-> "none"]

Pids == 1..Len(procs)

\* What prevOp keeps of the handler that ran before: only a kill-session
\* request that returned true is remembered.
Previous ==
  IF lastOp.op = "kill-session" /\ lastOp.ret = "true" THEN lastOp ELSE NoOp

\* ------------------------------------------------------------ Map helpers
MapHas(m, k) == k \in DOMAIN m

MapSet(m, k, v) == [x \in (DOMAIN m) \cup {k} |-> IF x = k THEN v ELSE m[x]]

\* Mutant: the entry is kept and marked instead of being removed.
MapDelete_MarkExited(m, k) ==
  [x \in DOMAIN m |-> IF x = k THEN [m[x] EXCEPT !.state = "exited"] ELSE m[x]]

\* Mutant: nothing is removed.
MapDelete_Keep(m, k) == m

\* Mutant: every entry is removed.
MapDelete_All(m, k) == [x \in {} |-> 0]

MapDelete(m, k) == [x \in (DOMAIN m) \ {k} |-> m[x]]

EmptyMap == [x \in {} |-> 0]

\* Mutant: the window guard is missing.
ConsumerAttached_Always == TRUE

\* mainWindow && !mainWindow.isDestroyed()
ConsumerAttached == mainWindow = "win" /\ window = "open"

\* The renderer can invoke an IPC handler only while its window exists.
RendererAlive == app = "running" /\ window = "open"

InitSession ==
  /\ now = StartTime
  /\ useNodePty \in BOOLEAN
  /\ sessions = EmptyMap
  /\ mainWindow = "win"
  /\ window = "open"
  /\ app = "running"
  /\ procs = <<>>
  /\ lastOp = NoOp
  /\ prevOp = NoOp
  /\ chats = 0
  /\ saving = [r \in 1..MaxSavers |-> [pc |-> "idle", ret |-> "none"]]

Init ==
  /\ InitSession
  /\ call = NoCall
  /\ result = NoResult

\* Mutant: the pty branch is taken whether or not node-pty loaded.
Backend_AlwaysPty == "pty"

\* useNodePty && pty
Backend == IF useNodePty THEN "pty" ELSE "spawn"

\* What the spawn call of a backend can do: return a child, throw, or (pipe
\* backend) return a child whose creation failed, reported later by 'error'.
SpawnOutcomes(type) ==
  IF type = "pty" THEN {"ok", "throw"} ELSE {"ok", "failed", "throw"}

\* Mutant: the entry is stored in a state other than 'ready'.
NewEntry_NotReady(p, type) == [process |-> p, state |-> "starting", type |-> type]

\* The value stored by sessions.set(sessionId, {...}).
NewEntry(p, type) == [process |-> p, state |-> "ready", type |-> type]

\* A child as the OS and the adapter library see it.
NewProc(sid, type, outcome) ==
  [sid |-> sid, type |-> type,
   status |-> IF outcome = "failed" THEN "failed" ELSE "running",
   code |-> IF outcome = "failed" THEN SpawnFailureCode ELSE <<>>,
   signals |-> <<>>, raised |-> <<>>, reported |-> {}, stdin |-> <<>>,
   emitted |-> <<>>, output |-> <<>>, closed |-> <<>>]

\* Pids held by some registry entry.
Registered == { sessions[k].process : k \in DOMAIN sessions }

TotalChunks == LET n[i \in 0..Len(procs)] ==
                     IF i = 0 THEN 0 ELSE n[i - 1] + Len(procs[i].emitted)
               IN n[Len(procs)]

TotalWrites == LET n[i \in 0..Len(procs)] ==
                     IF i = 0 THEN 0 ELSE n[i - 1] + Len(procs[i].stdin)
               IN n[Len(procs)]

\* ipcMain.handle('create-session'); elapsed is the time that has passed
\* since the clock was last read (the clock is read nowhere else).
CreateSession(elapsed, outcome) ==
  LET sessionId == ToString(now + elapsed)
      type == Backend
      p == Len(procs) + 1
  IN /\ RendererAlive
     /\ now' = now + elapsed
     /\ outcome \in SpawnOutcomes(type)
     /\ IF outcome = "throw"
        THEN /\ lastOp' = [op |-> "create-session", sessionId |-> sessionId,
                           ret |-> "throw"]
             /\ UNCHANGED <<sessions, procs>>
        ELSE /\ procs' = Append(procs, NewProc(sessionId, type, outcome))
             /\ sessions' = MapSet(sessions, sessionId, NewEntry(p, type))
             /\ lastOp' = [op |-> "create-session", sessionId |-> sessionId,
                           ret |-> "id"]
     /\ prevOp' = Previous
     /\ UNCHANGED <<chatVars, funVars>>
     /\ UNCHANGED <<useNodePty, mainWindow, window, app>>

\* Mutant: the pty branch does not trim.
WriteData_NoTrim(type, input) ==
  IF type = "pty" THEN input \o <<13>> ELSE input \o <<10>>

\* What send-to-q hands to the write call of the session's backend.
WriteData(type, input) ==
  IF type = "pty" THEN Trim(input) \o <<13>> ELSE input \o <<10>>

\* Mutant: the write is not guarded, a failed write still answers true.
SendResult_IgnoreFailure(found, outcome) == IF found THEN "true" ELSE "false"

\* What send-to-q returns: found is `session && session.process`, outcome
\* is what the write call does (a throw is caught and answered with false).
SendResult(found, outcome) ==
  IF found /\ outcome = "ok" THEN "true" ELSE "false"

\* ipcMain.handle('send-to-q')
SendToQ(sessionId, input, outcome) ==
  LET found == MapHas(sessions, sessionId)
  IN /\ RendererAlive
     /\ outcome \in {"ok", "throw"}
     /\ ~found => outcome = "ok"
     /\ procs' = IF found /\ outcome = "ok"
                 THEN [procs EXCEPT ![sessions[sessionId].process].stdin =
                         Append(@, WriteData(sessions[sessionId].type, input))]
                 ELSE procs
     /\ lastOp' = [op |-> "send-to-q", sessionId |-> sessionId,
                   ret |-> SendResult(found, outcome)]
     /\ prevOp' = Previous
     /\ UNCHANGED <<chatVars, funVars>>
     /\ UNCHANGED <<now, useNodePty, sessions, mainWindow, window, app>>

\* process.kill(sig) that returns normally; sig is "none" when no argument
\* is passed.
Signalled(proc, sig) == [proc EXCEPT !.signals = Append(@, sig)]

\* Mutant: the request answers true whether or not the id is registered.
KillResult_AlwaysTrue(found, outcome) ==
  IF outcome = "ok" THEN "true" ELSE "throw"

\* What kill-session returns: found is `session && session.process`, outcome
\* is what the kill call does (a throw is not caught: the request fails).
KillResult(found, outcome) ==
  IF found THEN (IF outcome = "ok" THEN "true" ELSE "throw") ELSE "false"

\* Mutant: the entry is deleted before the kill call is made.
KillSession_DeleteFirst(sessionId, outcome) ==
  LET found == MapHas(sessions, sessionId)
  IN /\ RendererAlive
     /\ outcome \in {"ok", "throw"}
     /\ ~found => outcome = "ok"
     /\ procs' = IF found /\ outcome = "ok"
                 THEN [procs EXCEPT ![sessions[sessionId].process] =
                         Signalled(@, "none")]
                 ELSE procs
     /\ sessions' = IF found THEN MapDelete(sessions, sessionId) ELSE sessions
     /\ lastOp' = [op |-> "kill-session", sessionId |-> sessionId,
                   ret |-> KillResult(found, outcome)]
     /\ prevOp' = Previous
     /\ UNCHANGED <<chatVars, funVars>>
     /\ UNCHANGED <<now, useNodePty, mainWindow, window, app>>

\* ipcMain.handle('kill-session')
KillSession(sessionId, outcome) ==
  LET found == MapHas(sessions, sessionId)
  IN /\ RendererAlive
     /\ outcome \in {"ok", "throw"}
     /\ ~found => outcome = "ok"
     /\ procs' = IF found /\ outcome = "ok"
                 THEN [procs EXCEPT ![sessions[sessionId].process] =
                         Signalled(@, "none")]
                 ELSE procs
     /\ sessions' = IF found /\ outcome = "ok"
                    THEN MapDelete(sessions, sessionId)
                    ELSE sessions
     /\ lastOp' = [op |-> "kill-session", sessionId |-> sessionId,
                   ret |-> KillResult(found, outcome)]
     /\ prevOp' = Previous
     /\ UNCHANGED <<chatVars, funVars>>
     /\ UNCHANGED <<now, useNodePty, mainWindow, window, app>>

\* Mutant: the loop signals every child ever spawned, registered or not.
KillAll_EveryChild(sig, thr) ==
  [p \in DOMAIN procs |->
     IF p \notin thr THEN Signalled(procs[p], sig) ELSE procs[p]]

\* Mutant: the registry is cleared first, the loop then finds no entry.
KillAll_AfterClear(sig, thr) == procs

\* process.kill(sig) that throws: the child gets no signal.
Raised(proc, sig) == [proc EXCEPT !.raised = Append(@, sig)]

\* Mutant: the loop has no try/catch, it ends at the first kill call that
\* throws (the registry is walked in the order the children were spawned).
KillAll_StopAtThrow(sig, thr) ==
  [p \in DOMAIN procs |->
     IF p \in Registered /\ \A q \in thr \cap Registered : p < q
     THEN Signalled(procs[p], sig)
     ELSE IF p \in Registered /\ \A q \in thr \cap Registered : p <= q
     THEN Raised(procs[p], sig)
     ELSE procs[p]]

\* sessions.forEach(session => { try { session.process.kill(sig) } catch {} })
\* thr is the set of children whose kill call throws.
KillAll(sig, thr) ==
  [p \in DOMAIN procs |->
     IF p \in Registered /\ p \notin thr THEN Signalled(procs[p], sig)
     ELSE IF p \in Registered THEN Raised(procs[p], sig)
     ELSE procs[p]]

\* ipcMain.handle('close-app')
CloseApp(thr) ==
  /\ RendererAlive
  /\ thr \in SUBSET Registered
  /\ procs' = KillAll("SIGTERM", thr)
  /\ sessions' = EmptyMap
  /\ mainWindow' = IF ConsumerAttached THEN "null" ELSE mainWindow
  /\ lastOp' = [op |-> "close-app", sessionId |-> <<>>, ret |-> "success"]
  /\ prevOp' = Previous
  /\ UNCHANGED <<chatVars, funVars>>
  /\ UNCHANGED <<now, useNodePty, window, app>>

\* mainWindow.on('close'): the user closes the window, or app.quit() does.
WindowClose(thr) ==
  /\ app = "running"
  /\ window = "open"
  /\ thr \in SUBSET Registered
  /\ procs' = KillAll("SIGTERM", thr)
  /\ sessions' = EmptyMap
  /\ mainWindow' = "null"
  /\ window' = "closed"
  /\ lastOp' = [op |-> "window-close", sessionId |-> <<>>, ret |-> "none"]
  /\ prevOp' = Previous
  /\ UNCHANGED <<chatVars, funVars>>
  /\ UNCHANGED <<now, useNodePty, app>>

\* app.on('window-all-closed')
WindowAllClosed(thr) ==
  /\ app = "running"
  /\ window = "closed"
  /\ thr \in SUBSET Registered
  /\ procs' = KillAll("none", thr)
  /\ sessions' = EmptyMap
  /\ app' = "quit"
  /\ lastOp' = [op |-> "window-all-closed", sessionId |-> <<>>,
                ret |-> "none"]
  /\ prevOp' = Previous
  /\ UNCHANGED <<chatVars, funVars>>
  /\ UNCHANGED <<now, useNodePty, mainWindow, window>>

\* app.on('activate') -> createWindow(), when no window exists.
Activate ==
  /\ app = "running"
  /\ window = "closed"
  /\ window' = "open"
  /\ mainWindow' = "win"
  /\ lastOp' = [op |-> "activate", sessionId |-> <<>>, ret |-> "none"]
  /\ prevOp' = Previous
  /\ UNCHANGED <<chatVars, funVars>>
  /\ UNCHANGED <<now, useNodePty, sessions, app, procs>>

\* Mutant: the classifier runs over the previous payload and this one.
OutputEvent_Buffered(p, stream, data) ==
  LET text == IF stream = "pty" THEN data ELSE BufferToString(data)
      last == IF procs[p].output = <<>> THEN <<>>
              ELSE procs[p].output[Len(procs[p].output)].data
  IN [sessionId |-> procs[p].sid,
      data |-> text,
      isPrompt |-> IF stream = "stderr" THEN "undefined"
                   ELSE IF IsPrompt(last \o text) THEN "true" ELSE "false",
      isError |-> IF stream = "stderr" THEN "true" ELSE "undefined"]

\* The 'q-output' payload built by a data handler.
\* pty onData:      { sessionId, data: data, isPrompt }
\* pipe stdout:     { sessionId, data: data.toString(), isPrompt }
\* pipe stderr:     { sessionId, data: data.toString(), isError: true }
OutputEvent(p, stream, data) ==
  LET text == IF stream = "pty" THEN data ELSE BufferToString(data)
  IN [sessionId |-> procs[p].sid,
      data |-> text,
      isPrompt |-> IF stream = "stderr" THEN "undefined"
                   ELSE IF IsPrompt(text) THEN "true" ELSE "false",
      isError |-> IF stream = "stderr" THEN "true" ELSE "undefined"]

\* Streams a backend reads from, and the chunks they carry.
Streams(type) == IF type = "pty" THEN {"pty"} ELSE {"stdout", "stderr"}

Chunks(stream) ==
  SplitChunks \cup
  (IF stream = "pty" THEN PtyChunks
   ELSE IF stream = "stdout" THEN PipeChunks ELSE StderrChunks)

\* Mutant: a chunk is forwarded only while its child is registered.
OnData_RegisteredOnly(p, stream, data) ==
  /\ app = "running"
  /\ p \in Pids
  /\ procs[p].status = "running"
  /\ stream \in Streams(procs[p].type)
  /\ data \in Chunks(stream)
  /\ procs' = [procs EXCEPT
                 ![p].emitted =
                    Append(@, [chunk |-> data, stream |-> stream,
                               att |-> (mainWindow = "win" /\ window = "open")]),
                 ![p].output =
                    IF ConsumerAttached /\ p \in Registered
                    THEN Append(@, OutputEvent(p, stream, data))
                    ELSE @]
  /\ lastOp' = [op |-> "data", sessionId |-> procs[p].sid, ret |-> "none"]
  /\ prevOp' = Previous
  /\ UNCHANGED <<chatVars, funVars>>
  /\ UNCHANGED <<now, useNodePty, sessions, mainWindow, window, app>>

\* qProcess.onData / qProcess.stdout.on('data') / qProcess.stderr.on('data'):
\* child p produces one chunk on a stream and the handler runs.
OnData(p, stream, data) ==
  /\ app = "running"
  /\ p \in Pids
  /\ procs[p].status = "running"
  /\ stream \in Streams(procs[p].type)
  /\ data \in Chunks(stream)
  /\ procs' = [procs EXCEPT
                 ![p].emitted =
                    Append(@, [chunk |-> data, stream |-> stream,
                               att |-> (mainWindow = "win" /\ window = "open")]),
                 ![p].output =
                    IF ConsumerAttached
                    THEN Append(@, OutputEvent(p, stream, data))
                    ELSE @]
  /\ lastOp' = [op |-> "data", sessionId |-> procs[p].sid, ret |-> "none"]
  /\ prevOp' = Previous
  /\ UNCHANGED <<chatVars, funVars>>
  /\ UNCHANGED <<now, useNodePty, sessions, mainWindow, window, app>>

\* The 'session-closed' payload of onExit and 'close': { sessionId, code }.
ClosedEvent(p, code) ==
  [sessionId |-> procs[p].sid, code |-> code, error |-> "undefined"]

\* The 'session-closed' payload of 'error':
\* { sessionId, code: -1, error: error.message }.
ErrorEvent(p) ==
  [sessionId |-> procs[p].sid, code |-> <<-1>>, error |-> "message"]

\* Common body of the three termination callbacks of child p; code is what
\* the adapter passes to the callback.
Report(p, name, code, event) ==
  /\ sessions' = MapDelete(sessions, procs[p].sid)
  /\ procs' = [procs EXCEPT
                 ![p].reported = @ \cup {name},
                 ![p].status = IF @ = "running" THEN "exited" ELSE @,
                 ![p].code = code,
                 ![p].closed = IF ConsumerAttached THEN Append(@, event) ELSE @]
  /\ lastOp' = [op |-> name, sessionId |-> procs[p].sid, ret |-> "none"]
  /\ prevOp' = Previous
  /\ UNCHANGED <<chatVars, funVars>>
  /\ UNCHANGED <<now, useNodePty, mainWindow, window, app>>

\* qProcess.onExit (pty backend): the child has terminated with code.
PtyOnExit(p, code) ==
  /\ app = "running"
  /\ p \in Pids
  /\ procs[p].type = "pty"
  /\ procs[p].status = "running"
  /\ code \in ExitCodes
  /\ Report(p, "exit", code, ClosedEvent(p, code))

\* qProcess.on('close') (pipe backend): the child has terminated with code,
\* or its failed creation has been reported by 'error' (code is then the
\* negative error number the library passes).
PipeOnClose(p, code) ==
  /\ app = "running"
  /\ p \in Pids
  /\ procs[p].type = "spawn"
  /\ "close" \notin procs[p].reported
  /\ \/ procs[p].status = "running" /\ code \in ExitCodes
     \/ procs[p].status = "failed" /\ "error" \in procs[p].reported
        /\ code = procs[p].code
  /\ Report(p, "close", code, ClosedEvent(p, code))

\* qProcess.on('error') (pipe backend): the child could not be created.
PipeOnError(p) ==
  /\ app = "running"
  /\ p \in Pids
  /\ procs[p].type = "spawn"
  /\ procs[p].status = "failed"
  /\ "error" \notin procs[p].reported
  /\ Report(p, "error", procs[p].code, ErrorEvent(p))

\* The prompt classifier applied to one chunk text: the regex test of the
\* data handlers, on its own.
Classify ==
  /\ call.fn = "classify"
  /\ result = NoResult
  /\ result' = [status |-> "returned",
                value |-> IF IsPrompt(call.arg) THEN "true" ELSE "false"]
  /\ UNCHANGED <<now, useNodePty, sessions, mainWindow, window, app, procs,
                 lastOp, prevOp, chatVars, call>>

InitClassify ==
  /\ InitSession
  /\ call \in { [fn |-> "classify", arg |-> t] : t \in Texts }
  /\ result = NoResult

SpecClassify == InitClassify /\ [][Classify]_vars

\* findQCliPath() called in one environment.
FindQ ==
  /\ call.fn = "findQCliPath"
  /\ result = NoResult
  /\ result' = FindQCliPath(call.arg)
  /\ UNCHANGED <<now, useNodePty, sessions, mainWindow, window, app, procs,
                 lastOp, prevOp, chatVars, call>>

InitLocate ==
  /\ InitSession
  /\ call \in { [fn |-> "findQCliPath", arg |-> e] : e \in Envs }
  /\ result = NoResult

SpecLocate == InitLocate /\ [][FindQ]_vars

\* The write path of send-to-q applied to one input for a session of one
\* type.
Write ==
  /\ call.fn = "write"
  /\ result = NoResult
  /\ result' = [status |-> "returned",
                value |-> WriteData(call.type, call.arg)]
  /\ UNCHANGED <<now, useNodePty, sessions, mainWindow, window, app, procs,
                 lastOp, prevOp, chatVars, call>>

InitSend ==
  /\ InitSession
  /\ call \in { [fn |-> "write", type |-> t, arg |-> i] :
                   t \in {"pty", "spawn"}, i \in WriteInputs }
  /\ result = NoResult

SpecSend == InitSend /\ [][Write]_vars

\* The PATH create-session builds for the child from one inherited PATH.
BuildPath ==
  /\ call.fn = "comprehensivePath"
  /\ result = NoResult
  /\ result' = [status |-> "returned", value |-> ComprehensivePath(call.arg)]
  /\ UNCHANGED <<now, useNodePty, sessions, mainWindow, window, app, procs,
                 lastOp, prevOp, chatVars, call>>

InitPath ==
  /\ InitSession
  /\ call \in { [fn |-> "comprehensivePath", arg |-> e] : e \in InheritedPaths }
  /\ result = NoResult

SpecPath == InitPath /\ [][BuildPath]_vars

\* The payloads the pty data handler sends for a run of reads: data as
\* the adapter hands it.
PtyPayloads(chunks) == PtyTexts(chunks, <<>>)

\* The payloads the stdout data handler sends for a run of reads:
\* data.toString() of every buffer.
PipePayloads(chunks) == [i \in 1..Len(chunks) |-> BufferToString(chunks[i])]

\* One run of reads delivered by each backend.
Deliver ==
  /\ call.fn = "deliver"
  /\ result = NoResult
  /\ result' = [status |-> "returned",
                value |-> [pty |-> PtyPayloads(call.arg),
                           spawn |-> PipePayloads(call.arg)]]
  /\ UNCHANGED <<now, useNodePty, sessions, mainWindow, window, app, procs,
                 lastOp, prevOp, chatVars, call>>

InitDeliver ==
  /\ InitSession
  /\ call \in { [fn |-> "deliver", arg |-> r] : r \in RawRuns(MaxReads) }
  /\ result = NoResult

SpecDeliver == InitDeliver /\ [][Deliver]_vars

\* The limit of the saved-chat store.
MaxChats == 100

\* row.count >= 100
AtLimit(count) == count >= MaxChats

\* ipcMain.handle('save-chat'), first asynchronous step: the SELECT COUNT(*)
\* runs and its callback tests the limit; err is whether the query failed.
SaveChatCount(r, err) ==
  /\ app = "running"
  /\ saving[r].pc = "idle"
  /\ saving' = [saving EXCEPT ![r] =
                  IF err THEN [pc |-> "idle", ret |-> "error"]
                  ELSE IF AtLimit(chats) THEN [pc |-> "idle", ret |-> "limit"]
                  ELSE [pc |-> "insert", ret |-> "none"]]
  /\ UNCHANGED <<now, useNodePty, sessions, mainWindow, window, app, procs,
                 lastOp, prevOp, chats, funVars>>

\* ipcMain.handle('save-chat'), second asynchronous step: the INSERT queued
\* by the callback runs; err is whether it failed.
SaveChatInsert(r, err) ==
  /\ app = "running"
  /\ saving[r].pc = "insert"
  /\ chats' = IF err THEN chats ELSE chats + 1
  /\ saving' = [saving EXCEPT ![r] =
                  [pc |-> "idle", ret |-> IF err THEN "error" ELSE "success"]]
  /\ UNCHANGED <<now, useNodePty, sessions, mainWindow, window, app, procs,
                 lastOp, prevOp, funVars>>

\* ipcMain.handle('delete-chat') for a stored chat: its row is deleted.  (A
\* request for an id that is not stored changes nothing.)
DeleteChat ==
  /\ app = "running"
  /\ chats > 0
  /\ chats' = chats - 1
  /\ UNCHANGED <<now, useNodePty, sessions, mainWindow, window, app, procs,
                 lastOp, prevOp, saving, funVars>>

\* The saved-chat store with save-chat requests in progress at once.
NextChat ==
  \/ \E r \in 1..MaxSavers, err \in BOOLEAN : SaveChatCount(r, err)
  \/ \E r \in 1..MaxSavers, err \in BOOLEAN : SaveChatInsert(r, err)
  \/ DeleteChat

SpecChat == Init /\ [][NextChat]_vars

\* The session layer without input and output traffic, for runs that spawn
\* at most maxProcs children and do not open a second window.  The kill
\* calls of the three shutdown handlers return normally here.
Lifecycle(maxProcs) ==
  \/ /\ Len(procs) < maxProcs
     /\ \E elapsed \in 0..(StartTime + MaxClock - now),
           outcome \in {"ok", "failed", "throw"} :
           CreateSession(elapsed, outcome)
  \/ \E sessionId \in SessionIds, outcome \in {"ok", "throw"} :
        KillSession(sessionId, outcome)
  \/ CloseApp({})
  \/ WindowClose({})
  \/ WindowAllClosed({})
  \/ \E p \in Pids, code \in ExitCodes : PtyOnExit(p, code)
  \/ \E p \in Pids, code \in ExitCodes \cup {SpawnFailureCode} :
        PipeOnClose(p, code)
  \/ \E p \in Pids : PipeOnError(p)

Next == Lifecycle(MaxProcs)

Spec == Init /\ [][Next]_vars

\* The session layer with send-to-q requests.
NextWrite ==
  \/ Lifecycle(MaxWriteProcs)
  \/ /\ TotalWrites < MaxWrites
     /\ \E sessionId \in SessionIds, input \in Inputs,
           outcome \in {"ok", "throw"} : SendToQ(sessionId, input, outcome)

SpecWrite == Init /\ [][NextWrite]_vars

\* The output path: children are spawned, produce output and terminate
\* while the window is detached, closed and opened again.  kill-session and
\* a spawn call that throws touch neither a data handler nor the window;
\* they are exercised by Spec and SpecWrite.
NextOutput ==
  \/ /\ Len(procs) < MaxOutputProcs
     /\ \E elapsed \in 0..(StartTime + MaxClock - now),
           outcome \in {"ok", "failed"} :
           CreateSession(elapsed, outcome)
  \/ CloseApp({})
  \/ WindowClose({})
  \/ WindowAllClosed({})
  \/ \E p \in Pids, code \in ExitCodes : PtyOnExit(p, code)
  \/ \E p \in Pids, code \in ExitCodes \cup {SpawnFailureCode} :
        PipeOnClose(p, code)
  \/ \E p \in Pids : PipeOnError(p)
  \/ Activate
  \/ /\ TotalChunks < MaxChunks
     /\ \E p \in Pids, stream \in {"pty", "stdout", "stderr"},
           data \in PtyChunks \cup PipeChunks \cup StderrChunks :
              OnData(p, stream, data)

SpecOutput == Init /\ [][NextOutput]_vars

\* The host process ends abnormally (crash, SIGKILL): main.js registers no
\* handler for it, so no kill loop runs and nothing is cleared.
HostExit ==
  /\ app = "running"
  /\ app' = "quit"
  /\ window' = "closed"
  /\ lastOp' = [op |-> "host-exit", sessionId |-> <<>>, ret |-> "none"]
  /\ prevOp' = Previous
  /\ UNCHANGED <<chatVars, funVars>>
  /\ UNCHANGED <<now, useNodePty, sessions, mainWindow, procs>>

\* The session layer in a host process that may end abnormally.
NextHost ==
  \/ Lifecycle(MaxProcs)
  \/ HostExit

SpecHost == Init /\ [][NextHost]_vars

\* The requests and callbacks of live sessions, with the window attached
\* throughout: sessions are created, written to, killed, produce output and
\* terminate.  Requests name registered sessions and the calls into the
\* backend return normally.  (Unknown ids, failing calls and the window and
\* shutdown handlers are exercised by Spec, SpecWrite and SpecOutput.)
NextFrame ==
  \/ /\ Len(procs) < MaxFrameProcs
     /\ \E elapsed \in 0..(StartTime + MaxClock - now) :
           CreateSession(elapsed, "ok")
  \/ \E sessionId \in DOMAIN sessions : KillSession(sessionId, "ok")
  \/ /\ TotalWrites + TotalChunks < MaxFrameEvents
     /\ \E sessionId \in DOMAIN sessions, input \in Inputs :
           SendToQ(sessionId, input, "ok")
  \/ /\ TotalWrites + TotalChunks < MaxFrameEvents
     /\ \E p \in Pids, stream \in {"pty", "stdout", "stderr"},
           data \in PtyChunks \cup PipeChunks \cup StderrChunks :
              OnData(p, stream, data)
  \/ \E p \in Pids, code \in ExitCodes : PtyOnExit(p, code)
  \/ \E p \in Pids, code \in ExitCodes : PipeOnClose(p, code)

SpecFrame == Init /\ [][NextFrame]_vars

\* A session whose child writes a prompt phrase in pieces: sessions are
\* created and produce output, the window stays attached.
NextSplit ==
  \/ /\ Len(procs) < MaxOutputProcs
     /\ \E elapsed \in 0..(StartTime + MaxClock - now) :
           CreateSession(elapsed, "ok")
  \/ /\ TotalChunks < MaxSplitChunks
     /\ \E p \in Pids, stream \in {"pty", "stdout", "stderr"},
           data \in SplitChunks \cup PtyChunks \cup PipeChunks :
              OnData(p, stream, data)

SpecSplit == Init /\ [][NextSplit]_vars

\* Shutdown runs in which kill calls may throw: sessions are created, their
\* children terminate, and each shutdown handler runs with any set of
\* registered children whose kill call throws.
NextShutdown ==
  \/ /\ Len(procs) < MaxShutdownProcs
     /\ \E elapsed \in 0..(StartTime + MaxClock - now) :
           CreateSession(elapsed, "ok")
  \/ \E thr \in SUBSET Pids : CloseApp(thr)
  \/ \E thr \in SUBSET Pids : WindowClose(thr)
  \/ \E thr \in SUBSET Pids : WindowAllClosed(thr)
  \/ \E p \in Pids, code \in ExitCodes : PtyOnExit(p, code)
  \/ \E p \in Pids, code \in ExitCodes : PipeOnClose(p, code)

SpecShutdown == Init /\ [][NextShutdown]_vars

\* ------------------------------------------------------------ properties
\* Child p has had a termination callback run for it.
Reported(p) == procs[p].reported # {}

Att(e) == e.att

\* The chunks child p produced while a consumer was attached, in order.
AttachedChunks(p) == SelectSeq(procs[p].emitted, Att)

\* C1: the ids returned by create-session are pairwise distinct and never
\* reused, also when two requests are handled within the same millisecond.
\* (Every child records the id its create-session request returned.)
C1_IdsPairwiseDistinct ==
  \A p \in Pids, q \in Pids : p # q => procs[p].sid # procs[q].sid

\* C2: right after a create-session request has returned id s, the registry
\* has an entry for s in state 'ready' whose process is the child that the
\* request spawned.
C2_CreatedIsReady ==
  (lastOp.op = "create-session" /\ lastOp.ret = "id") =>
     /\ MapHas(sessions, lastOp.sessionId)
     /\ sessions[lastOp.sessionId].state = "ready"
     /\ sessions[lastOp.sessionId].process = Len(procs)
     /\ procs[Len(procs)].sid = lastOp.sessionId

\* A second session has just been created while the first is registered.
C2_Witness ==
  /\ lastOp.op = "create-session"
  /\ lastOp.ret = "id"
  /\ Len(procs) = 2
  /\ Cardinality(DOMAIN sessions) = 2

C4_ExactlyOneSessionClosed ==
  \A p \in Pids :
     Reported(p) =>
        /\ Len(procs[p].closed) = 1
        /\ procs[p].closed[1].sessionId = procs[p].sid
        /\ procs[p].closed[1].code = procs[p].code

\* C5: for every child that has terminated (onExit or 'close' has run) a
\* 'session-closed' event for its id has been sent, also when the callback
\* ran after mainWindow was set to null.
C5_ExitNotificationDelivered ==
  \A p \in Pids :
     ("exit" \in procs[p].reported \/ "close" \in procs[p].reported) =>
        \E i \in 1..Len(procs[p].closed) :
           procs[p].closed[i].sessionId = procs[p].sid

\* C6: a kill-session request on a registered id answers true (when its kill
\* call returns), and a second kill-session request on the same id, made
\* right after one that answered true, answers false and signals no child.
C6_KillTwice ==
  [][ lastOp'.op = "kill-session" =>
        /\ (MapHas(sessions, lastOp'.sessionId) /\ lastOp'.ret # "throw") =>
              lastOp'.ret = "true"
        /\ (/\ lastOp.op = "kill-session"
            /\ lastOp.ret = "true"
            /\ lastOp.sessionId = lastOp'.sessionId) =>
              (lastOp'.ret = "false" /\ procs' = procs) ]_vars

\* The second of two kill-session requests on one id has just answered
\* false, while another session is registered.
C6_Witness ==
  /\ lastOp.op = "kill-session"
  /\ lastOp.ret = "false"
  /\ prevOp.op = "kill-session"
  /\ prevOp.ret = "true"
  /\ prevOp.sessionId = lastOp.sessionId
  /\ DOMAIN sessions # {}

\* C7: a kill-session request on an id that is not in the registry answers
\* false, signals no child and leaves the registry as it was.
C7_KillUnknown ==
  [][ (lastOp'.op = "kill-session" /\ ~MapHas(sessions, lastOp'.sessionId)) =>
        (lastOp'.ret = "false" /\ procs' = procs /\ sessions' = sessions) ]_vars

\* A kill-session request on an id that no session ever had has answered
\* false while a session is registered.
C7_Witness ==
  /\ lastOp.op = "kill-session"
  /\ lastOp.ret = "false"
  /\ \A p \in Pids : procs[p].sid # lastOp.sessionId
  /\ DOMAIN sessions # {}

Unmodified(type, payload, chunk) ==
  IF type = "pty" THEN payload = chunk ELSE Utf8Bytes(payload) = chunk

\* C9: the 'q-output' events sent for a session are exactly the chunks its
\* adapter produced while a consumer was attached: same order, none twice,
\* payload unmodified.
C9_OutputIsEmitted ==
  \A p \in Pids :
     /\ Len(procs[p].output) = Len(AttachedChunks(p))
     /\ \A i \in 1..Len(procs[p].output) :
           /\ procs[p].output[i].sessionId = procs[p].sid
           /\ Unmodified(procs[p].type, procs[p].output[i].data,
                         AttachedChunks(p)[i].chunk)

\* The text a data handler makes of a chunk.
ChunkText(e) == IF e.stream = "pty" THEN e.chunk ELSE BufferToString(e.chunk)

ShutdownOps == {"close-app", "window-close", "window-all-closed"}

\* C11: a run of the shutdown procedure sends exactly one kill signal to
\* the child of every registered session, none to any other child, and
\* leaves the registry empty; a run that finds the registry empty (such as
\* a second run right after the first) therefore sends no signal.
C11_ShutdownConverges ==
  [][ lastOp'.op \in ShutdownOps =>
        /\ sessions' = EmptyMap
        /\ Len(procs') = Len(procs)
        /\ \A p \in Pids :
              IF p \in Registered
              THEN Len(procs'[p].signals) = Len(procs[p].signals) + 1
              ELSE procs'[p].signals = procs[p].signals ]_vars

\* Two live sessions were signalled once by window 'close'; the shutdown of
\* window-all-closed that ran next sent nothing more.
C11_Witness ==
  /\ lastOp.op = "window-all-closed"
  /\ sessions = EmptyMap
  /\ Len(procs) = 2
  /\ procs[1].sid # procs[2].sid
  /\ \A p \in Pids : procs[p].status = "running"
                      /\ procs[p].signals = <<"SIGTERM">>

\* The ways the host application ends: the three shutdown handlers and the
\* abnormal exit of the host process.
ShutdownTriggers == ShutdownOps \cup {"host-exit"}

\* C12: every shutdown trigger (close-app, the last window being closed,
\* abnormal exit of the host process) runs the same shutdown: it sends the
\* graceful-termination signal SIGTERM to the child of every registered
\* session and ends with an empty registry.
C12_TriggersRunSameShutdown ==
  [][ lastOp'.op \in ShutdownTriggers =>
        /\ sessions' = EmptyMap
        /\ \A p \in Pids :
              p \in Registered =>
                 procs'[p].signals = Append(procs[p].signals, "SIGTERM") ]_vars

\* Event e reports a failure: a negative code and an error message.
IsFailureReport(e) == e.code[1] < 0 /\ e.error # "undefined"

\* C13: when the child of a create-session request cannot be created, in
\* either backend, exactly one 'session-closed' event is sent for the
\* session id, it carries a negative code and an error message, and after
\* the report the registry holds no entry for the child.
C13_SpawnFailureReportedOnce ==
  /\ (lastOp.op = "create-session" /\ lastOp.ret = "throw") =>
        \E p \in Pids :
           /\ procs[p].sid = lastOp.sessionId
           /\ \E i \in 1..Len(procs[p].closed) :
                 IsFailureReport(procs[p].closed[i])
  /\ \A p \in Pids :
        (procs[p].status = "failed" /\ Reported(p)) =>
           /\ Len(procs[p].closed) = 1
           /\ procs[p].closed[1].sessionId = procs[p].sid
           /\ IsFailureReport(procs[p].closed[1])
           /\ p \notin Registered

\* C14: the saved-chat store never holds more than 100 chats, whatever the
\* interleaving of save-chat and delete-chat requests.
C14_AtMostMaxChats == chats <= MaxChats

\* The fixed confirmation phrases, in lower case: "(y/n)",
\* "do you want to continue?", "can i", "should i", "allow", "trust",
\* "proceed".
ConfirmationPhrases ==
  { <<40, 121, 47, 110, 41>>,
    <<100, 111, 32, 121, 111, 117, 32, 119, 97, 110, 116, 32, 116, 111, 32,
    99, 111, 110, 116, 105, 110, 117, 101, 63>>,
    <<99, 97, 110, 32, 105>>,
    <<115, 104, 111, 117, 108, 100, 32, 105>>,
    <<97, 108, 108, 111, 119>>,
    <<116, 114, 117, 115, 116>>,
    <<112, 114, 111, 99, 101, 101, 100>> }

\* text contains one of the phrases, upper and lower case taken as equal.
ContainsPhrase(text) ==
  \E i \in 1..Len(text), j \in 1..Len(text) :
     i <= j /\ Lower(SubSeq(text, i, j)) \in ConfirmationPhrases

\* C15: the classifier answers true for "Do you want to continue? (y/n)"
\* and for "Trust this MCP server?", false for "Listing files in /tmp",
\* and for every text it answers true exactly when the text contains one
\* of the confirmation phrases, case-insensitively.
C15_Classifier ==
  (call.fn = "classify" /\ result.status = "returned") =>
     /\ result.value = "true" <=> ContainsPhrase(call.arg)
     /\ call.arg \in {ContinueExample, TrustExample} => result.value = "true"
     /\ call.arg = ListingExample => result.value = "false"

\* "Trust this MCP server?" has been classified as a prompt.
C15_Witness ==
  /\ call = [fn |-> "classify", arg |-> TrustExample]
  /\ result = [status |-> "returned", value |-> "true"]

\* The native lookup of the platform finds no existing file.
NativeLookupFails(env) ==
  /\ env.which.threw \/ Trim(env.which.out) \notin env.existing
  /\ env.platform = "win32" =>
        (env.where.threw \/ FirstLine(Trim(env.where.out)) \notin env.existing)

\* None of the well-known install paths of the platform exists.
NoWellKnownPath(env) ==
  \A i \in 1..Len(SearchPaths(env)) : SearchPaths(env)[i] \notin env.existing

C17_BackendsEquivalent ==
  (call.fn = "deliver" /\ result # NoResult) =>
     result.value.pty = result.value.spawn

\* C18: a shutdown run signals the child of every registered session (the
\* kill loop runs on the registry as it was, before it is cleared) and ends
\* with an empty registry in the same step, without any child's exit event:
\* no child changes status and no termination callback runs in it.  The
\* exit events are separate steps that may follow later or not at all.
C18_KillBeforeClear ==
  [][ lastOp'.op \in ShutdownOps =>
        /\ \A p \in Registered :
              Len(procs'[p].signals) > Len(procs[p].signals)
        /\ sessions' = EmptyMap
        /\ \A p \in Pids :
              /\ procs'[p].status = procs[p].status
              /\ procs'[p].reported = procs[p].reported
              /\ procs'[p].closed = procs[p].closed ]_vars

\* close-app has just completed with two sessions: both children were
\* signalled, neither has exited, the registry is empty.
C18_Witness ==
  /\ lastOp.op = "close-app"
  /\ sessions = EmptyMap
  /\ Len(procs) = 2
  /\ \A p \in Pids : /\ procs[p].status = "running"
                      /\ procs[p].reported = {}
                      /\ procs[p].signals = <<"SIGTERM">>

\* C19: a session whose child was sent a kill signal and has not terminated
\* stays registered: as long as no termination callback has run for the
\* child, the registry holds its entry.
C19_RegisteredUntilExit ==
  \A p \in Pids :
     (procs[p].signals # <<>> /\ procs[p].status = "running" /\ ~Reported(p)) =>
        p \in Registered

\* The children for which a termination callback runs in this step.
Reporting == { p \in Pids : procs'[p].reported # procs[p].reported }

\* C20: a termination callback (onExit, 'close', 'error') of a child whose
\* session was already removed by kill-session or by a shutdown leaves the
\* registry as it was.
C20_RemoveIdempotent ==
  [][ \A p \in Reporting :
        (procs[p].signals # <<>> /\ p \notin Registered) =>
           sessions' = sessions ]_vars

\* The handlers that may change the registry.
RegistryWriters ==
  {"create-session", "kill-session", "exit", "close", "error"} \cup ShutdownOps

\* C21: the registry is changed only by create-session, the termination
\* callbacks, kill-session and the shutdown handlers; send-to-q and the
\* data handlers leave it unchanged, and kill-session on id s adds no entry
\* and leaves every entry other than s as it was.
C21_RegistryFrame ==
  [][ /\ sessions' # sessions => lastOp'.op \in RegistryWriters
      /\ lastOp'.op \in {"send-to-q", "data"} => sessions' = sessions
      /\ lastOp'.op = "kill-session" =>
            /\ DOMAIN sessions' \subseteq DOMAIN sessions
            /\ \A k \in DOMAIN sessions \ {lastOp'.sessionId} :
                  k \in DOMAIN sessions' /\ sessions'[k] = sessions[k] ]_vars

\* kill-session has removed one session while another, which has been
\* written to or has produced output, stays registered.
C21_Witness ==
  /\ lastOp.op = "kill-session"
  /\ lastOp.ret = "true"
  /\ \E k \in DOMAIN sessions :
        \/ procs[sessions[k].process].stdin # <<>>
        \/ procs[sessions[k].process].output # <<>>

\* The flag the classifier gives a text, as the payload carries it.
Flag(text) == IF IsPrompt(text) THEN "true" ELSE "false"

\* C22: every delivered output chunk, those of the pipe backend's error
\* stream included, carries its session id and a boolean isPrompt equal to
\* the classifier's result on the chunk's text.
C22_ChunksTagged ==
  \A p \in Pids :
     \A i \in 1..Len(procs[p].output) :
        /\ procs[p].output[i].sessionId = procs[p].sid
        /\ procs[p].output[i].isPrompt = Flag(procs[p].output[i].data)

\* The payloads sent from the pty and the stdout handler for child p.
Classified(p) ==
  { i \in 1..Len(procs[p].output) : procs[p].output[i].isError = "undefined" }

\* C23: the isPrompt flag of a delivered chunk is determined by the chunk's
\* own text, whatever was delivered before it: equal texts carry equal
\* flags, the flag is the classifier's result on that text alone, and when
\* a phrase is split across two consecutive chunks neither chunk is flagged.
C23_FlagIsLocal ==
  /\ \A p \in Pids, q \in Pids :
        \A i \in Classified(p), j \in Classified(q) :
           procs[p].output[i].data = procs[q].output[j].data =>
              procs[p].output[i].isPrompt = procs[q].output[j].isPrompt
  /\ \A p \in Pids :
        \A i \in Classified(p) :
           /\ procs[p].output[i].isPrompt = Flag(procs[p].output[i].data)
           /\ (i + 1) \in Classified(p)
               /\ ~IsPrompt(procs[p].output[i].data)
               /\ ~IsPrompt(procs[p].output[i + 1].data) =>
                  /\ procs[p].output[i].isPrompt = "false"
                  /\ procs[p].output[i + 1].isPrompt = "false"

\* "(Y/" and then "N)" have been delivered for one session: together they
\* hold a prompt phrase.
C23_Witness ==
  \E p \in Pids :
     /\ Len(procs[p].output) = 2
     /\ Classified(p) = {1, 2}
     /\ procs[p].output[1].data = <<40, 89, 47>>
     /\ procs[p].output[2].data = <<78, 41>>
     /\ IsPrompt(procs[p].output[1].data \o procs[p].output[2].data)

\* Every character of s is whitespace.
AllSpace(s) == \A i \in 1..Len(s) : IsSpace(s[i])

\* t is s without its leading and trailing whitespace.
IsTrimOf(t, s) ==
  /\ t # <<>> => ~IsSpace(t[1]) /\ ~IsSpace(t[Len(t)])
  /\ \E i \in 0..Len(s) :
        /\ i + Len(t) <= Len(s)
        /\ SubSeq(s, i + 1, i + Len(t)) = t
        /\ AllSpace(SubSeq(s, 1, i))
        /\ AllSpace(SubSeq(s, i + Len(t) + 1, Len(s)))

\* C24: for a pty session send-to-q writes the input without its leading
\* and trailing whitespace followed by one carriage return; for a pipe
\* session it writes the input as given followed by one line feed.
C24_WrittenData ==
  (call.fn = "write" /\ result # NoResult) =>
     LET w == result.value
         body == SubSeq(w, 1, Len(w) - 1)
     IN /\ w # <<>>
        /\ call.type = "pty" =>
              w[Len(w)] = 13 /\ IsTrimOf(body, call.arg)
        /\ call.type = "spawn" =>
              w[Len(w)] = 10 /\ body = call.arg

\* " y\n" has been written to a pty session as "y\r".
C24_Witness ==
  /\ call.fn = "write"
  /\ call.type = "pty"
  /\ call.arg = <<32, 121, 10>>
  /\ result # NoResult
  /\ result.value = <<121, 13>>

\* The line terminator of a backend's write path.
Terminator(type) == IF type = "pty" THEN 13 ELSE 10

\* C25: a session's backend is fixed at creation: its recorded type is pty
\* exactly when node-pty loaded and pipe otherwise, the type is that of the
\* child it holds, it never changes, and every write made for the session
\* goes through the write path of that type.
C25_BackendFixed ==
  [][ /\ useNodePty' = useNodePty
      /\ \A k \in DOMAIN sessions' :
            /\ sessions'[k].type = "pty" <=> useNodePty
            /\ sessions'[k].type = "spawn" <=> ~useNodePty
            /\ procs'[sessions'[k].process].type = sessions'[k].type
      /\ \A k \in DOMAIN sessions \cap DOMAIN sessions' :
            sessions'[k].type = sessions[k].type
      /\ (lastOp'.op = "send-to-q" /\ lastOp'.ret = "true") =>
            LET e == sessions[lastOp'.sessionId]
                before == procs[e.process].stdin
                after == procs'[e.process].stdin
            IN /\ Len(after) = Len(before) + 1
               /\ after[Len(after)][Len(after[Len(after)])] =
                     Terminator(e.type) ]_vars

\* node-pty did not load and a pipe session has been written to.
C25_Witness ==
  /\ ~useNodePty
  /\ lastOp.op = "send-to-q"
  /\ lastOp.ret = "true"
  /\ \E k \in DOMAIN sessions :
        /\ sessions[k].type = "spawn"
        /\ procs[sessions[k].process].stdin # <<>>

\* The entries of a search path: the strings between its ':' separators;
\* the empty path has no entry.
Separators(path) == { i \in 1..Len(path) : path[i] = 58 }

\* The position of the k-th separator of path; 0 and Len(path) + 1 stand
\* for the two ends.
Separator(path, k) ==
  IF k = 0 THEN 0
  ELSE IF k > Cardinality(Separators(path)) THEN Len(path) + 1
  ELSE CHOOSE i \in Separators(path) :
         Cardinality({ j \in Separators(path) : j < i }) = k - 1

Entries(path) ==
  IF path = <<>> THEN <<>>
  ELSE [k \in 1..(Cardinality(Separators(path)) + 1) |->
          SubSeq(path, Separator(path, k - 1) + 1, Separator(path, k) - 1)]

\* C26: the search path given to the child is the inherited search path
\* followed by the fixed list of extra directories: its entries are the
\* inherited entries, in order, then the extra directories, and nothing
\* else (no empty entry, also when the inherited path is empty).
C26_PathExtended ==
  (call.fn = "comprehensivePath" /\ result # NoResult) =>
     Entries(result.value) = Entries(OriginalPath(call.arg)) \o AdditionalPaths

\* The first path a lookup command reports: the first line of its output,
\* without the line terminator (LF, or CR LF on win32); none when the
\* command threw or printed nothing.
RECURSIVE UpToLineEnd(_)
UpToLineEnd(s) ==
  IF s = <<>> \/ s[1] \in {10, 13} THEN <<>>
  ELSE <<s[1]>> \o UpToLineEnd(Tail(s))

ReportedPath(lookup) ==
  IF lookup.threw THEN <<>> ELSE UpToLineEnd(TrimLeft(lookup.out))

\* The native lookups of the platform, in the order they are tried.
NativeLookups(env) ==
  IF env.platform = "win32" THEN << env.which, env.where >> ELSE << env.which >>

\* The paths the resolution considers, in order: what each native lookup
\* reports, then the well-known paths of the platform.
Candidates(env) ==
  [i \in 1..Len(NativeLookups(env)) |-> ReportedPath(NativeLookups(env)[i])]
    \o SearchPaths(env)

\* The positions of the candidates that exist on disk.
Hits(env) ==
  { i \in 1..Len(Candidates(env)) :
       Candidates(env)[i] # <<>> /\ Candidates(env)[i] \in env.existing }

\* C27: findQCliPath resolves in a fixed order, first match winning: the
\* path the native lookup reports if and only if it exists on disk, else
\* the first existing entry of the platform's well-known paths, else the
\* bare name 'q'; the result is determined by the environment of the call.
C27_ResolutionOrder ==
  (call.fn = "findQCliPath" /\ result # NoResult) =>
     /\ result.status = "returned"
     /\ result.value =
           IF Hits(call.arg) = {} THEN BareQ
           ELSE Candidates(call.arg)[CHOOSE i \in Hits(call.arg) :
                                       \A j \in Hits(call.arg) : i <= j]

\* C28: no child is leaked: every spawned child that has not exited holds
\* a registry entry or has already been sent a kill signal.
C28_NoLeakedChild ==
  \A p \in Pids :
     procs[p].status = "running" =>
        p \in Registered \/ procs[p].signals # <<>>

\* C29: a termination callback of child p removes at most the entry that
\* holds p: every entry that holds another child stays as it was.
C29_CallbackRemovesOwnEntry ==
  [][ \A p \in Reporting :
         \A k \in DOMAIN sessions :
            sessions[k].process # p =>
               k \in DOMAIN sessions' /\ sessions'[k] = sessions[k] ]_vars

\* The children that produce a chunk in this step.
Emitting == { p \in Pids : Len(procs'[p].emitted) > Len(procs[p].emitted) }

\* C30: output delivery does not depend on registry membership: a chunk
\* that a child produces while it holds no registry entry (kill-session
\* has removed it, the child has not exited yet) is sent to the attached
\* consumer as a 'q-output' event with the id of the child's session.
C30_DeliveryIgnoresRegistry ==
  [][ \A p \in Emitting :
         (p \notin Registered /\ ConsumerAttached) =>
            /\ Len(procs'[p].output) = Len(procs[p].output) + 1
            /\ SubSeq(procs'[p].output, 1, Len(procs[p].output)) = procs[p].output
            /\ procs'[p].output[Len(procs'[p].output)].sessionId = procs[p].sid
            /\ procs'[p].output[Len(procs'[p].output)].data =
                  ChunkText(procs'[p].emitted[Len(procs'[p].emitted)]) ]_vars

\* kill-session removed a session and then its child, still running,
\* produced a chunk, which was sent.
C30_Witness ==
  /\ lastOp.op = "data"
  /\ prevOp.op = "kill-session"
  /\ prevOp.sessionId = lastOp.sessionId
  /\ lastOp.sessionId \notin DOMAIN sessions
  /\ \E p \in Pids :
        /\ procs[p].sid = lastOp.sessionId
        /\ procs[p].status = "running"
        /\ procs[p].signals = << "none" >>
        /\ Len(procs[p].output) = 1

\* The registered children whose kill call throws in this step.
Raising == { p \in Registered : Len(procs'[p].raised) > Len(procs[p].raised) }

\* C31: in a shutdown run a kill call that raises for one session does not
\* stop the run: every other registered session is sent its kill signal
\* and the registry is cleared.
C31_ShutdownSurvivesThrow ==
  [][ lastOp'.op \in ShutdownOps =>
        /\ \A p \in Registered \ Raising :
              Len(procs'[p].signals) = Len(procs[p].signals) + 1
        /\ \A p \in Raising : procs'[p].signals = procs[p].signals
        /\ sessions' = EmptyMap ]_vars

\* A shutdown run has just completed with two sessions: the kill call of
\* the first one threw, the second one was signalled, the registry is empty.
C31_Witness ==
  /\ lastOp.op \in ShutdownOps
  /\ sessions = EmptyMap
  /\ Len(procs) = 2
  /\ procs[1].raised # <<>>
  /\ procs[1].signals = <<>>
  /\ procs[2].raised = <<>>
  /\ procs[2].signals # <<>>

\* C32: when the kill call inside kill-session raises, the request fails
\* with that error instead of returning a boolean, and the registry entry
\* of the session stays in place unchanged (no signal was sent); a boolean
\* is returned only when the kill call returned (true) or the id named no
\* session (false).
C32_KillSessionThrow ==
  [][ lastOp'.op = "kill-session" =>
        /\ lastOp'.ret \in {"true", "false", "throw"}
        /\ lastOp'.ret = "throw" =>
              /\ lastOp'.sessionId \in DOMAIN sessions
              /\ sessions' = sessions
              /\ procs' = procs
        /\ lastOp'.ret = "false" =>
              /\ lastOp'.sessionId \notin DOMAIN sessions
              /\ sessions' = sessions
        /\ lastOp'.ret = "true" =>
              /\ lastOp'.sessionId \in DOMAIN sessions
              /\ Len(procs'[sessions[lastOp'.sessionId].process].signals) =
                    Len(procs[sessions[lastOp'.sessionId].process].signals) + 1
      ]_vars

\* kill-session has failed on a registered session: the entry is still
\* there and its running child has been sent no signal.
C32_Witness ==
  /\ lastOp.op = "kill-session"
  /\ lastOp.ret = "throw"
  /\ lastOp.sessionId \in DOMAIN sessions
  /\ sessions[lastOp.sessionId].state = "ready"
  /\ procs[sessions[lastOp.sessionId].process].status = "running"
  /\ procs[sessions[lastOp.sessionId].process].signals = <<>>
====
